---- MODULE Spec2Model ----
(***************************************************************************)
(* Model of the recursive-descent parser of src/src/parse.c: the token     *)
(* cursor, the scope chain, the locals and globals lists, the aggregate    *)
(* layout and the typed construction of + and -.                           *)
(*                                                                         *)
(* Pointers are modelled by value: a Var* is the index of the variable in  *)
(* the allocation-ordered `heap`, a VarList* is a sequence of such    *)
(* indices with the list head first, a Node* / Type* / Member* is the      *)
(* record itself, and a `next`-linked list is a sequence.  Node.tok (the   *)
(* position used only in diagnostics) is not carried.                      *)
(*                                                                         *)
(* The tokenizer and the type module (9cc.h, type.c) are not part of the   *)
(* sources; their operations are modelled at the interface the             *)
(* specification gives for them.                                           *)
(***************************************************************************)
EXTENDS Integers, Sequences, FiniteSets, TLC

VARIABLES tokens, token, scope, locals, globals, heap, cnt,
          pc, isfunc, frames, fns, prog, err

vars == <<tokens, token, scope, locals, globals, heap, cnt,
          pc, isfunc, frames, fns, prog, err>>

(***************************************************************************)
(* Tokens                                                                  *)
(***************************************************************************)
R(s) == [kind |-> "TK_RESERVED", str |-> s, val |-> 0]
I(s) == [kind |-> "TK_IDENT", str |-> s, val |-> 0]
N(n) == [kind |-> "TK_NUM", str |-> "", val |-> n]
Str(s, n) == [kind |-> "TK_STR", str |-> s, val |-> n]
EOF == [kind |-> "TK_EOF", str |-> "", val |-> 0]

(***************************************************************************)
(* Type model                                                              *)
(***************************************************************************)
CharSize == 1
IntSize == 8
PtrSize == 8

NoTy == [kind |-> "TY_NONE"]
char_type == [kind |-> "TY_CHAR", size |-> CharSize, base |-> NoTy,
              array_len |-> 0, members |-> <<>>]
int_type == [kind |-> "TY_INT", size |-> IntSize, base |-> NoTy,
             array_len |-> 0, members |-> <<>>]

pointer_to(base) ==
  [kind |-> "TY_PTR", size |-> PtrSize, base |-> base,
   array_len |-> 0, members |-> <<>>]

array_of(base, len) ==
  [kind |-> "TY_ARRAY", size |-> base.size * len, base |-> base,
   array_len |-> len, members |-> <<>>]

is_integer(ty) == ty.kind \in {"TY_CHAR", "TY_INT"}

has_base(ty) == ty.kind \in {"TY_PTR", "TY_ARRAY"}

(***************************************************************************)
(* Nodes.  calloc zeroes every field: ty starts unset.                     *)
(***************************************************************************)
Nil == [kind |-> "NIL"]

new_node(kind) == [kind |-> kind, ty |-> NoTy]

new_binary(kind, lhs, rhs) == [kind |-> kind, ty |-> NoTy, lhs |-> lhs, rhs |-> rhs]

new_unary(kind, e) == [kind |-> kind, ty |-> NoTy, lhs |-> e]

new_num(val) == [kind |-> "ND_NUM", ty |-> NoTy, val |-> val]

new_var_node(var) == [kind |-> "ND_VAR", ty |-> NoTy, var |-> var]

\* new_node for a block or a statement expression, with its body list.
new_body(kind, body) == [kind |-> kind, ty |-> NoTy, body |-> body]

\* new_node for if / while / for: the clause pointers start NULL.
new_ctrl(kind) == [kind |-> kind, ty |-> NoTy, init |-> Nil, cond |-> Nil,
                   inc |-> Nil, then |-> Nil, els |-> Nil]

BinaryKinds == {"ND_ADD", "ND_SUB", "ND_MUL", "ND_DIV", "ND_EQ", "ND_NE",
                "ND_LT", "ND_LE", "ND_ASSIGN", "ND_PTR_ADD", "ND_PTR_SUB",
                "ND_PTR_DIFF"}
UnaryKinds == {"ND_ADDR", "ND_DEREF", "ND_RETURN", "ND_EXPR_STMT", "ND_MEMBER"}

(***************************************************************************)
(* Parser state threaded through the parsing functions: the globals of     *)
(* parse.c (locals, globals, scope), the token cursor, the heap of Var     *)
(* records, the counter of new_label, and the pending error (error_tok     *)
(* ends the process: nothing is parsed after it).                          *)
(***************************************************************************)
St == [token |-> token, scope |-> scope, locals |-> locals, globals |-> globals,
       heap |-> heap, cnt |-> cnt, err |-> ""]

Ok(s, v) == [s |-> s, v |-> v]
Fail(s, msg) == [s |-> [s EXCEPT !.err = msg], v |-> Nil]
Failed(r) == r.s.err # ""

(***************************************************************************)
(* Tokenizer interface                                                     *)
(***************************************************************************)
Tok(s) == tokens[s.token]
Adv(s) == [s EXCEPT !.token = @ + 1]

peek(s, op) == Tok(s).kind = "TK_RESERVED" /\ Tok(s).str = op

\* consume(op): the cursor after the call; peek(s, op) is its truth value.
consume(s, op) == IF peek(s, op) THEN Adv(s) ELSE s

expect(s, op) == IF peek(s, op) THEN Adv(s) ELSE [s EXCEPT !.err = "expected " \o op]

is_ident(s) == Tok(s).kind = "TK_IDENT"

consume_ident(s) == IF is_ident(s) THEN Adv(s) ELSE s

expect_ident(s) ==
  IF is_ident(s) THEN Ok(Adv(s), Tok(s).str) ELSE Fail(s, "expected an identifier")

expect_number(s) ==
  IF Tok(s).kind = "TK_NUM" THEN Ok(Adv(s), Tok(s).val) ELSE Fail(s, "expected a number")

at_eof(s) == Tok(s).kind = "TK_EOF"

(***************************************************************************)
(* Type annotation pass (add_type): literal -> integer type, variable ->   *)
(* its declared type, & -> pointer to the operand type, * -> the operand's *)
(* base type (an error without one), binary arithmetic, comparison and     *)
(* assignment -> the left operand's type, pointer difference -> integer,   *)
(* member access -> the member's type, call -> integer, statement          *)
(* expression -> the type of its final element.  A node already annotated  *)
(* is left alone; statement nodes carry no type.                           *)
(***************************************************************************)
RECURSIVE add_type(_, _), add_type_seq(_, _)

add_type_seq(h, ns) ==
  IF ns = <<>> THEN [n |-> <<>>, err |-> ""]
  ELSE LET a == add_type(h, Head(ns))
           b == add_type_seq(h, Tail(ns))
       IN IF a.err # "" THEN [n |-> <<>>, err |-> a.err]
          ELSE IF b.err # "" THEN b
          ELSE [n |-> <<a.n>> \o b.n, err |-> ""]

add_type(h, node) ==
  IF node.kind = "NIL" \/ node.ty # NoTy THEN [n |-> node, err |-> ""]
  ELSE IF node.kind \in BinaryKinds THEN
    LET l == add_type(h, node.lhs)
        r == add_type(h, node.rhs)
    IN IF l.err # "" THEN l ELSE IF r.err # "" THEN r
       ELSE [n |-> [node EXCEPT !.lhs = l.n, !.rhs = r.n,
                                !.ty = IF node.kind = "ND_PTR_DIFF" THEN int_type
                                       ELSE l.n.ty],
             err |-> ""]
  ELSE IF node.kind \in UnaryKinds THEN
    LET l == add_type(h, node.lhs)
    IN IF l.err # "" THEN l
       ELSE IF node.kind = "ND_DEREF" /\ ~has_base(l.n.ty)
         THEN [n |-> node, err |-> "invalid pointer dereference"]
       ELSE [n |-> [node EXCEPT !.lhs = l.n,
                                !.ty = CASE node.kind = "ND_ADDR" -> pointer_to(l.n.ty)
                                         [] node.kind = "ND_DEREF" -> l.n.ty.base
                                         [] node.kind = "ND_MEMBER" -> node.member.ty
                                         [] OTHER -> NoTy],
             err |-> ""]
  ELSE IF node.kind = "ND_NUM" THEN [n |-> [node EXCEPT !.ty = int_type], err |-> ""]
  ELSE IF node.kind = "ND_VAR" THEN [n |-> [node EXCEPT !.ty = h[node.var].ty], err |-> ""]
  ELSE IF node.kind = "ND_FUNCALL" THEN
    LET a == add_type_seq(h, node.args)
    IN IF a.err # "" THEN [n |-> node, err |-> a.err]
       ELSE [n |-> [node EXCEPT !.args = a.n, !.ty = int_type], err |-> ""]
  ELSE IF node.kind \in {"ND_STMT_EXPR", "ND_BLOCK"} THEN
    LET b == add_type_seq(h, node.body)
    IN IF b.err # "" THEN [n |-> node, err |-> b.err]
       ELSE [n |-> [node EXCEPT !.body = b.n,
                                !.ty = IF node.kind = "ND_STMT_EXPR"
                                       THEN b.n[Len(b.n)].ty ELSE NoTy],
             err |-> ""]
  ELSE IF node.kind \in {"ND_IF", "ND_WHILE", "ND_FOR"} THEN
    LET i == add_type(h, node.init)
        c == add_type(h, node.cond)
        u == add_type(h, node.inc)
        t == add_type(h, node.then)
        e == add_type(h, node.els)
        bad == SelectSeq(<<i.err, c.err, u.err, t.err, e.err>>, LAMBDA m : m # "")
    IN IF bad # <<>> THEN [n |-> node, err |-> bad[1]]
       ELSE [n |-> [node EXCEPT !.init = i.n, !.cond = c.n, !.inc = u.n,
                                !.then = t.n, !.els = e.n],
             err |-> ""]
  ELSE [n |-> node, err |-> ""]

(***************************************************************************)
(* Scope and variables                                                     *)
(***************************************************************************)
\* First match walking the scope chain from its head; 0 is NULL.
find_var(s, name) ==
  LET hit == {i \in 1..Len(s.scope) : s.heap[s.scope[i]].name = name}
  IN IF hit = {} THEN 0
     ELSE s.scope[CHOOSE i \in hit : \A j \in hit : i <= j]

new_var(s, name, ty, is_local) ==
  LET var == [name |-> name, ty |-> ty, is_local |-> is_local,
              contents |-> "", cont_len |-> 0]
      id == Len(s.heap) + 1
  IN Ok([s EXCEPT !.heap = Append(@, var), !.scope = <<id>> \o @], id)

new_lvar(s, name, ty) ==
  LET r == new_var(s, name, ty, TRUE)
  IN Ok([r.s EXCEPT !.locals = <<r.v>> \o @], r.v)

new_gvar(s, name, ty) ==
  LET r == new_var(s, name, ty, FALSE)
  IN Ok([r.s EXCEPT !.globals = <<r.v>> \o @], r.v)

new_label(s) == Ok([s EXCEPT !.cnt = @ + 1], ".L.data." \o ToString(s.cnt))

(***************************************************************************)
(* Declarations and types                                                  *)
(***************************************************************************)

RECURSIVE Call(_, _, _)

is_typename(s) == peek(s, "char") \/ peek(s, "int") \/ peek(s, "struct")

\* while (consume("*")) ty = pointer_to(ty);
basetype_stars(s, ty) ==
  IF peek(s, "*") THEN Call("basetype_stars", consume(s, "*"), pointer_to(ty)) ELSE Ok(s, ty)

basetype(s) ==
  IF ~is_typename(s) THEN Fail(s, "typename expected")
  ELSE LET r == IF peek(s, "char") THEN Ok(consume(s, "char"), char_type)
                ELSE IF peek(s, "int") THEN Ok(consume(s, "int"), int_type)
                ELSE Call("struct_decl", s, Nil)
       IN IF Failed(r) THEN r ELSE Call("basetype_stars", r.s, r.v)

read_type_suffix_mut(s, base) ==
  IF ~peek(s, "[") THEN Ok(s, base)
  ELSE LET sz == expect_number(consume(s, "["))
       IN IF Failed(sz) THEN sz
          ELSE LET c == expect(sz.s, "]")
               IN IF c.err # "" THEN Fail(c, c.err)
                  ELSE Call("read_type_suffix", c, array_of(base, sz.v))

read_type_suffix(s, base) ==
  IF ~peek(s, "[") THEN Ok(s, base)
  ELSE LET sz == expect_number(consume(s, "["))
       IN IF Failed(sz) THEN sz
          ELSE LET c == expect(sz.s, "]")
               IN IF c.err # "" THEN Fail(c, c.err)
                  ELSE LET b == Call("read_type_suffix", c, base)
                       IN IF Failed(b) THEN b ELSE Ok(b.s, array_of(b.v, sz.v))

\* Assign offsets within the struct to members: the running total of the sizes.
RECURSIVE assign_offsets_mut(_, _, _)
assign_offsets_mut(members, i, offset) ==
  IF i > Len(members) THEN [members |-> members, size |-> offset]
  ELSE assign_offsets_mut([members EXCEPT ![i].offset = offset], i + 1,
                          offset + ((members[i].ty.size + 7) \div 8) * 8)

RECURSIVE assign_offsets(_, _, _)
assign_offsets(members, i, offset) ==
  IF i > Len(members) THEN [members |-> members, size |-> offset]
  ELSE assign_offsets([members EXCEPT ![i].offset = offset], i + 1,
                      offset + members[i].ty.size)

\* while (!consume("}")) { cur->next = struct_member(); cur = cur->next; }
struct_members(s, acc) ==
  IF peek(s, "}") THEN Ok(consume(s, "}"), acc)
  ELSE LET m == Call("struct_member", s, Nil)
       IN IF Failed(m) THEN m ELSE Call("struct_members", m.s, Append(acc, m.v))

struct_decl(s) ==
  LET a == expect(s, "struct")
      b == expect(a, "{")
  IN IF a.err # "" THEN Fail(a, a.err)
     ELSE IF b.err # "" THEN Fail(b, b.err)
     ELSE LET ms == Call("struct_members", b, <<>>)
          IN IF Failed(ms) THEN ms
             ELSE LET lay == assign_offsets(ms.v, 1, 0)
                  IN Ok(ms.s, [kind |-> "TY_STRUCT", size |-> lay.size, base |-> NoTy,
                               array_len |-> 0, members |-> lay.members])

struct_member(s) ==
  LET ty == Call("basetype", s, Nil)
  IN IF Failed(ty) THEN ty
     ELSE LET name == expect_ident(ty.s)
          IN IF Failed(name) THEN name
             ELSE LET suf == Call("read_type_suffix", name.s, ty.v)
                  IN IF Failed(suf) THEN suf
                     ELSE LET e == expect(suf.s, ";")
                          IN IF e.err # "" THEN Fail(e, e.err)
                             ELSE Ok(e, [name |-> name.v, ty |-> suf.v, offset |-> 0])

\* The declared variable: Ok(state, id of the parameter).
read_func_param(s) ==
  LET ty == Call("basetype", s, Nil)
  IN IF Failed(ty) THEN ty
     ELSE LET name == expect_ident(ty.s)
          IN IF Failed(name) THEN name
             ELSE LET suf == Call("read_type_suffix", name.s, ty.v)
                  IN IF Failed(suf) THEN suf
                     ELSE new_lvar(suf.s, name.v, suf.v)

\* while (!consume(")")) { expect(","); cur->next = read_func_param(); ... }
read_func_params_loop(s, acc) ==
  IF peek(s, ")") THEN Ok(consume(s, ")"), acc)
  ELSE LET c == expect(s, ",")
       IN IF c.err # "" THEN Fail(c, c.err)
          ELSE LET p == Call("read_func_param", c, Nil)
               IN IF Failed(p) THEN p ELSE Call("read_func_params_loop", p.s, Append(acc, p.v))

read_func_params(s) ==
  IF peek(s, ")") THEN Ok(consume(s, ")"), <<>>)
  ELSE LET head == Call("read_func_param", s, Nil)
       IN IF Failed(head) THEN head ELSE Call("read_func_params_loop", head.s, <<head.v>>)

global_var(s) ==
  LET ty == Call("basetype", s, Nil)
  IN IF Failed(ty) THEN ty
     ELSE LET name == expect_ident(ty.s)
          IN IF Failed(name) THEN name
             ELSE LET suf == Call("read_type_suffix", name.s, ty.v)
                  IN IF Failed(suf) THEN suf
                     ELSE LET e == expect(suf.s, ";")
                          IN IF e.err # "" THEN Fail(e, e.err)
                             ELSE new_gvar(e, name.v, suf.v)

\* Lookahead: is the next top-level item a function?  The cursor is put back.
is_function_mut(s) ==
  LET ty == Call("basetype", s, Nil)
  IN IF Failed(ty) THEN ty
     ELSE Ok(ty.s, is_ident(ty.s) /\ peek(consume_ident(ty.s), "("))

is_function(s) ==
  LET tok == s.token
      ty == Call("basetype", s, Nil)
  IN IF Failed(ty) THEN ty
     ELSE LET isfn == is_ident(ty.s) /\ peek(consume_ident(ty.s), "(")
              after == IF is_ident(ty.s) THEN consume(consume_ident(ty.s), "(") ELSE ty.s
          IN Ok([after EXCEPT !.token = tok], isfn)

(***************************************************************************)
(* Statements                                                              *)
(***************************************************************************)
declaration(s) ==
  LET ty == Call("basetype", s, Nil)
  IN IF Failed(ty) THEN ty
     ELSE LET name == expect_ident(ty.s)
          IN IF Failed(name) THEN name
             ELSE LET suf == Call("read_type_suffix", name.s, ty.v)
                  IN IF Failed(suf) THEN suf
                     ELSE LET var == new_lvar(suf.s, name.v, suf.v)
                          IN IF peek(var.s, ";")
                               THEN Ok(consume(var.s, ";"), new_node("ND_NULL"))
                             ELSE LET e == expect(var.s, "=")
                                  IN IF e.err # "" THEN Fail(e, e.err)
                                     ELSE LET rhs == Call("expr", e, Nil)
                                          IN IF Failed(rhs) THEN rhs
                                             ELSE LET f == expect(rhs.s, ";")
                                                      node == new_binary("ND_ASSIGN",
                                                                new_var_node(var.v), rhs.v)
                                                  IN IF f.err # "" THEN Fail(f, f.err)
                                                     ELSE Ok(f, new_unary("ND_EXPR_STMT", node))

read_expr_stmt(s) ==
  LET e == Call("expr", s, Nil)
  IN IF Failed(e) THEN e ELSE Ok(e.s, new_unary("ND_EXPR_STMT", e.v))

stmt(s) ==
  LET node == Call("stmt2", s, Nil)
  IN IF Failed(node) THEN node
     ELSE LET t == add_type(node.s.heap, node.v)
          IN IF t.err # "" THEN Fail(node.s, t.err) ELSE Ok(node.s, t.n)

\* while (!consume("}")) { cur->next = stmt(); cur = cur->next; }
block_items(s, acc) ==
  IF peek(s, "}") THEN Ok(consume(s, "}"), acc)
  ELSE LET n == Call("stmt", s, Nil)
       IN IF Failed(n) THEN n ELSE Call("block_items", n.s, Append(acc, n.v))

leave_block_mut(s, sc) == s

\* scope = sc; on leaving a block
leave_block(s, sc) == [s EXCEPT !.scope = sc]

\* "(" expr ")" stmt, shared by if and while: Ok(state, <<cond, then>>)
cond_then(s) ==
  LET a == expect(s, "(")
  IN IF a.err # "" THEN Fail(a, a.err)
     ELSE LET c == Call("expr", a, Nil)
          IN IF Failed(c) THEN c
             ELSE LET b == expect(c.s, ")")
                  IN IF b.err # "" THEN Fail(b, b.err)
                     ELSE LET th == Call("stmt", b, Nil)
                          IN IF Failed(th) THEN th ELSE Ok(th.s, <<c.v, th.v>>)

stmt_return(s) ==
  LET e == Call("expr", s, Nil)
  IN IF Failed(e) THEN e
     ELSE LET f == expect(e.s, ";")
          IN IF f.err # "" THEN Fail(f, f.err) ELSE Ok(f, new_unary("ND_RETURN", e.v))

stmt_if(s) ==
  LET ct == cond_then(s)
  IN IF Failed(ct) THEN ct
     ELSE LET node == [new_ctrl("ND_IF") EXCEPT !.cond = ct.v[1], !.then = ct.v[2]]
          IN IF ~peek(ct.s, "else") THEN Ok(ct.s, node)
             ELSE LET el == Call("stmt", consume(ct.s, "else"), Nil)
                  IN IF Failed(el) THEN el ELSE Ok(el.s, [node EXCEPT !.els = el.v])

stmt_while(s) ==
  LET ct == cond_then(s)
  IN IF Failed(ct) THEN ct
     ELSE Ok(ct.s, [new_ctrl("ND_WHILE") EXCEPT !.cond = ct.v[1], !.then = ct.v[2]])

\* One optional clause of for, closed by `close`: Ok(state, node or Nil)
for_clause(s, close, is_stmt) ==
  IF peek(s, close) THEN Ok(consume(s, close), Nil)
  ELSE LET e == IF is_stmt THEN Call("read_expr_stmt", s, Nil) ELSE Call("expr", s, Nil)
       IN IF Failed(e) THEN e
          ELSE LET c == expect(e.s, close)
               IN IF c.err # "" THEN Fail(c, c.err) ELSE Ok(c, e.v)

stmt_for(s) ==
  LET a == expect(s, "(")
  IN IF a.err # "" THEN Fail(a, a.err)
     ELSE LET i == for_clause(a, ";", TRUE)
          IN IF Failed(i) THEN i
             ELSE LET c == for_clause(i.s, ";", FALSE)
                  IN IF Failed(c) THEN c
                     ELSE LET u == for_clause(c.s, ")", TRUE)
                          IN IF Failed(u) THEN u
                             ELSE LET th == Call("stmt", u.s, Nil)
                                  IN IF Failed(th) THEN th
                                     ELSE Ok(th.s, [new_ctrl("ND_FOR") EXCEPT
                                                      !.init = i.v, !.cond = c.v,
                                                      !.inc = u.v, !.then = th.v])

stmt_block(s) ==
  LET sc == s.scope
      b == Call("block_items", consume(s, "{"), <<>>)
  IN IF Failed(b) THEN b
     ELSE Ok(leave_block(b.s, sc), new_body("ND_BLOCK", b.v))

stmt2(s) ==
  IF peek(s, "return") THEN stmt_return(consume(s, "return"))
  ELSE IF peek(s, "if") THEN stmt_if(consume(s, "if"))
  ELSE IF peek(s, "while") THEN stmt_while(consume(s, "while"))
  ELSE IF peek(s, "for") THEN stmt_for(consume(s, "for"))
  ELSE IF peek(s, "{") THEN stmt_block(s)
  ELSE IF is_typename(s) THEN Call("declaration", s, Nil)
  ELSE LET node == Call("read_expr_stmt", s, Nil)
       IN IF Failed(node) THEN node
          ELSE LET e == expect(node.s, ";")
               IN IF e.err # "" THEN Fail(e, e.err) ELSE Ok(e, node.v)

(***************************************************************************)
(* Expressions                                                             *)
(***************************************************************************)
expr(s) == Call("assign", s, Nil)

assign(s) ==
  LET node == Call("equality", s, Nil)
  IN IF Failed(node) THEN node
     ELSE IF ~peek(node.s, "=") THEN node
     ELSE LET rhs == Call("assign", consume(node.s, "="), Nil)
          IN IF Failed(rhs) THEN rhs
             ELSE Ok(rhs.s, new_binary("ND_ASSIGN", node.v, rhs.v))

equality_loop(s, node) ==
  IF peek(s, "==") \/ peek(s, "!=")
    THEN LET r == Call("relational", Adv(s), Nil)
         IN IF Failed(r) THEN r
            ELSE Call("equality_loop", r.s, new_binary(IF peek(s, "==") THEN "ND_EQ" ELSE "ND_NE",
                                               node, r.v))
  ELSE Ok(s, node)

equality(s) ==
  LET node == Call("relational", s, Nil)
  IN IF Failed(node) THEN node ELSE Call("equality_loop", node.s, node.v)

relational_loop(s, node) ==
  IF peek(s, "<") \/ peek(s, "<=") \/ peek(s, ">") \/ peek(s, ">=")
    THEN LET r == Call("add", Adv(s), Nil)
         IN IF Failed(r) THEN r
            ELSE Call("relational_loop", r.s, IF peek(s, "<") THEN new_binary("ND_LT", node, r.v)
                   ELSE IF peek(s, "<=") THEN new_binary("ND_LE", node, r.v)
                   ELSE IF peek(s, ">") THEN new_binary("ND_LT", r.v, node)
                   ELSE new_binary("ND_LE", r.v, node))
  ELSE Ok(s, node)

relational(s) ==
  LET node == Call("add", s, Nil)
  IN IF Failed(node) THEN node ELSE Call("relational_loop", node.s, node.v)

new_add_mut(s, lhs, rhs) ==
  LET l == add_type(s.heap, lhs)
      r == add_type(s.heap, rhs)
  IN IF l.err # "" THEN Fail(s, l.err)
     ELSE IF r.err # "" THEN Fail(s, r.err)
     ELSE IF is_integer(l.n.ty) /\ is_integer(r.n.ty)
       THEN Ok(s, new_binary("ND_ADD", l.n, r.n))
     ELSE IF (has_base(l.n.ty) /\ is_integer(r.n.ty)) \/ (is_integer(l.n.ty) /\ has_base(r.n.ty))
       THEN Ok(s, new_binary("ND_PTR_ADD", l.n, r.n))
     ELSE Fail(s, "invalid operands")

new_add(s, lhs, rhs) ==
  LET l == add_type(s.heap, lhs)
      r == add_type(s.heap, rhs)
  IN IF l.err # "" THEN Fail(s, l.err)
     ELSE IF r.err # "" THEN Fail(s, r.err)
     ELSE IF is_integer(l.n.ty) /\ is_integer(r.n.ty)
       THEN Ok(s, new_binary("ND_ADD", l.n, r.n))
     ELSE IF has_base(l.n.ty) /\ is_integer(r.n.ty)
       THEN Ok(s, new_binary("ND_PTR_ADD", l.n, r.n))
     ELSE IF is_integer(l.n.ty) /\ has_base(r.n.ty)
       THEN Ok(s, new_binary("ND_PTR_ADD", r.n, l.n))
     ELSE Fail(s, "invalid operands")

new_sub(s, lhs, rhs) ==
  LET l == add_type(s.heap, lhs)
      r == add_type(s.heap, rhs)
  IN IF l.err # "" THEN Fail(s, l.err)
     ELSE IF r.err # "" THEN Fail(s, r.err)
     ELSE IF is_integer(l.n.ty) /\ is_integer(r.n.ty)
       THEN Ok(s, new_binary("ND_SUB", l.n, r.n))
     ELSE IF has_base(l.n.ty) /\ is_integer(r.n.ty)
       THEN Ok(s, new_binary("ND_PTR_SUB", l.n, r.n))
     ELSE IF has_base(l.n.ty) /\ has_base(r.n.ty)
       THEN Ok(s, new_binary("ND_PTR_DIFF", l.n, r.n))
     ELSE Fail(s, "invalid operands")

add_loop(s, node) ==
  IF peek(s, "+") \/ peek(s, "-")
    THEN LET r == Call("mul", Adv(s), Nil)
         IN IF Failed(r) THEN r
            ELSE LET n == IF peek(s, "+") THEN new_add(r.s, node, r.v)
                          ELSE new_sub(r.s, node, r.v)
                 IN IF Failed(n) THEN n ELSE Call("add_loop", n.s, n.v)
  ELSE Ok(s, node)

add(s) ==
  LET node == Call("mul", s, Nil)
  IN IF Failed(node) THEN node ELSE Call("add_loop", node.s, node.v)

mul_loop(s, node) ==
  IF peek(s, "*") \/ peek(s, "/")
    THEN LET r == Call("unary", Adv(s), Nil)
         IN IF Failed(r) THEN r
            ELSE Call("mul_loop", r.s, new_binary(IF peek(s, "*") THEN "ND_MUL" ELSE "ND_DIV",
                                          node, r.v))
  ELSE Ok(s, node)

mul(s) ==
  LET node == Call("unary", s, Nil)
  IN IF Failed(node) THEN node ELSE Call("mul_loop", node.s, node.v)

\* -x is replaced by 0 - x
unary_minus(s) ==
  LET e == Call("unary", s, Nil)
  IN IF Failed(e) THEN e ELSE Ok(e.s, new_binary("ND_SUB", new_num(0), e.v))

unary(s) ==
  IF peek(s, "+") THEN Call("unary", consume(s, "+"), Nil)
  ELSE IF peek(s, "-") THEN unary_minus(consume(s, "-"))
  ELSE IF peek(s, "&") \/ peek(s, "*")
    THEN LET e == Call("unary", Adv(s), Nil)
         IN IF Failed(e) THEN e
            ELSE Ok(e.s, new_unary(IF peek(s, "&") THEN "ND_ADDR" ELSE "ND_DEREF", e.v))
  ELSE Call("postfix", s, Nil)

\* First member of that name; Nil is NULL.
find_member(ty, name) ==
  LET hit == {i \in 1..Len(ty.members) : ty.members[i].name = name}
  IN IF hit = {} THEN Nil
     ELSE ty.members[CHOOSE i \in hit : \A j \in hit : i <= j]

struct_ref(s, lhs) ==
  LET l == add_type(s.heap, lhs)
  IN IF l.err # "" THEN Fail(s, l.err)
     ELSE IF l.n.ty.kind # "TY_STRUCT" THEN Fail(s, "not a struct")
     ELSE LET name == expect_ident(s)
          IN IF Failed(name) THEN name
             ELSE LET mem == find_member(l.n.ty, name.v)
                  IN IF mem = Nil THEN Fail(s, "no such member")
                     ELSE Ok(name.s, [kind |-> "ND_MEMBER", ty |-> NoTy,
                                      lhs |-> l.n, member |-> mem])

postfix_loop(s, node) ==
  IF peek(s, "[")
    THEN LET idx == Call("expr", consume(s, "["), Nil)
         IN IF Failed(idx) THEN idx
            ELSE LET exp == new_add(idx.s, node, idx.v)
                 IN IF Failed(exp) THEN exp
                    ELSE LET c == expect(exp.s, "]")
                         IN IF c.err # "" THEN Fail(c, c.err)
                            ELSE Call("postfix_loop", c, new_unary("ND_DEREF", exp.v))
  ELSE IF peek(s, ".")
    THEN LET m == struct_ref(consume(s, "."), node)
         IN IF Failed(m) THEN m ELSE Call("postfix_loop", m.s, m.v)
  ELSE Ok(s, node)

postfix(s) ==
  LET node == Call("primary", s, Nil)
  IN IF Failed(node) THEN node ELSE Call("postfix_loop", node.s, node.v)

\* while (!consume("}")) { cur->next = stmt(); cur = cur->next; }
stmt_expr_items(s, acc) ==
  IF peek(s, "}") THEN Ok(consume(s, "}"), acc)
  ELSE LET n == Call("stmt", s, Nil)
       IN IF Failed(n) THEN n ELSE Call("stmt_expr_items", n.s, Append(acc, n.v))

\* memcpy(cur, cur->lhs, sizeof(Node)): the last element becomes its operand.
splice_last_mut(body) == body

splice_last(body) == [body EXCEPT ![Len(body)] = body[Len(body)].lhs]

stmt_expr(s) ==
  LET first == Call("stmt", s, Nil)
  IN IF Failed(first) THEN first
     ELSE LET items == Call("stmt_expr_items", first.s, <<first.v>>)
          IN IF Failed(items) THEN items
             ELSE LET c == expect(items.s, ")")
                  IN IF c.err # "" THEN Fail(c, c.err)
                     ELSE IF items.v[Len(items.v)].kind # "ND_EXPR_STMT"
                       THEN Fail(c, "stmt expr returning void is not supported")
                     ELSE Ok(c, new_body("ND_STMT_EXPR", splice_last(items.v)))

func_args_loop(s, acc) ==
  IF peek(s, ",")
    THEN LET a == Call("assign", consume(s, ","), Nil)
         IN IF Failed(a) THEN a ELSE Call("func_args_loop", a.s, Append(acc, a.v))
  ELSE LET c == expect(s, ")")
       IN IF c.err # "" THEN Fail(c, c.err) ELSE Ok(c, acc)

func_args(s) ==
  IF peek(s, ")") THEN Ok(consume(s, ")"), <<>>)
  ELSE LET head == Call("assign", s, Nil)
       IN IF Failed(head) THEN head ELSE Call("func_args_loop", head.s, <<head.v>>)

primary_paren(s) ==
  IF peek(s, "{") THEN Call("stmt_expr", consume(s, "{"), Nil)
  ELSE LET node == Call("expr", s, Nil)
       IN IF Failed(node) THEN node
          ELSE LET c == expect(node.s, ")")
               IN IF c.err # "" THEN Fail(c, c.err) ELSE Ok(c, node.v)

primary_sizeof(s) ==
  LET node == Call("unary", s, Nil)
  IN IF Failed(node) THEN node
     ELSE LET t == add_type(node.s.heap, node.v)
          IN IF t.err # "" THEN Fail(node.s, t.err)
             ELSE Ok(node.s, new_num(t.n.ty.size))

primary_ident(s) ==
  LET tok == Tok(s)
      a == consume_ident(s)
  IN IF peek(a, "(")
       THEN LET args == Call("func_args", consume(a, "("), Nil)
            IN IF Failed(args) THEN args
               ELSE Ok(args.s, [kind |-> "ND_FUNCALL", ty |-> NoTy,
                                funcname |-> tok.str, args |-> args.v])
     ELSE LET var == find_var(a, tok.str)
          IN IF var = 0 THEN Fail(a, "undefined variable")
             ELSE Ok(a, new_var_node(var))

primary_str(s) ==
  LET tok == Tok(s)
      ty == array_of(char_type, tok.val)
      label == new_label(Adv(s))
      var == new_gvar(label.s, label.v, ty)
  IN Ok([var.s EXCEPT !.heap[var.v].contents = tok.str,
                      !.heap[var.v].cont_len = tok.val],
        new_var_node(var.v))

primary(s) ==
  IF peek(s, "(") THEN primary_paren(consume(s, "("))
  ELSE IF peek(s, "sizeof") THEN primary_sizeof(consume(s, "sizeof"))
  ELSE IF is_ident(s) THEN primary_ident(s)
  ELSE IF Tok(s).kind = "TK_STR" THEN primary_str(s)
  ELSE IF Tok(s).kind # "TK_NUM" THEN Fail(s, "expected expression")
  ELSE LET n == expect_number(s) IN Ok(n.s, new_num(n.v))

\* function(), up to the "{" of the body
function_head(s0) ==
  LET s == [s0 EXCEPT !.locals = <<>>]
      ty == Call("basetype", s, Nil)
  IN IF Failed(ty) THEN ty
     ELSE LET name == expect_ident(ty.s)
          IN IF Failed(name) THEN name
             ELSE LET a == expect(name.s, "(")
                  IN IF a.err # "" THEN Fail(a, a.err)
                     ELSE LET sc == a.scope
                              params == Call("read_func_params", a, Nil)
                          IN IF Failed(params) THEN params
                             ELSE LET b == expect(params.s, "{")
                                  IN IF b.err # "" THEN Fail(b, b.err)
                                     ELSE Ok(b, [kind |-> "fn", sc |-> sc, body |-> <<>>,
                                                 name |-> name.v, params |-> params.v])

(***************************************************************************)
(* The parsing functions call one another through Call, which names the    *)
(* function called and passes the parser state and the argument, if any.   *)
(***************************************************************************)
Call(f, s, a) ==
  CASE f = "basetype" -> basetype(s)
    [] f = "basetype_stars" -> basetype_stars(s, a)
    [] f = "read_type_suffix" -> read_type_suffix(s, a)
    [] f = "struct_decl" -> struct_decl(s)
    [] f = "struct_members" -> struct_members(s, a)
    [] f = "struct_member" -> struct_member(s)
    [] f = "read_func_param" -> read_func_param(s)
    [] f = "read_func_params" -> read_func_params(s)
    [] f = "read_func_params_loop" -> read_func_params_loop(s, a)
    [] f = "declaration" -> declaration(s)
    [] f = "read_expr_stmt" -> read_expr_stmt(s)
    [] f = "stmt" -> stmt(s)
    [] f = "stmt2" -> stmt2(s)
    [] f = "block_items" -> block_items(s, a)
    [] f = "expr" -> expr(s)
    [] f = "assign" -> assign(s)
    [] f = "equality" -> equality(s)
    [] f = "equality_loop" -> equality_loop(s, a)
    [] f = "relational" -> relational(s)
    [] f = "relational_loop" -> relational_loop(s, a)
    [] f = "add" -> add(s)
    [] f = "add_loop" -> add_loop(s, a)
    [] f = "mul" -> mul(s)
    [] f = "mul_loop" -> mul_loop(s, a)
    [] f = "unary" -> unary(s)
    [] f = "postfix" -> postfix(s)
    [] f = "postfix_loop" -> postfix_loop(s, a)
    [] f = "primary" -> primary(s)
    [] f = "stmt_expr" -> stmt_expr(s)
    [] f = "stmt_expr_items" -> stmt_expr_items(s, a)
    [] f = "func_args" -> func_args(s)
    [] f = "func_args_loop" -> func_args_loop(s, a)
    [] f = "is_function" -> is_function(s)
    [] f = "global_var" -> global_var(s)
    [] f = "function_head" -> function_head(s)

(***************************************************************************)
(* The parse as a state machine.  pc is the position in program():         *)
(*   "program"  at the head of the top-level loop,                         *)
(*   "item"     after is_function() has answered,                          *)
(*   "body"     inside the statement loop of function() or of a block,     *)
(*   "done"     program() has returned, "error" error_tok has been called. *)
(* frames holds, for function() and for every block open at statement-list *)
(* level, the saved scope head `sc` and the statements linked so far.      *)
(***************************************************************************)
Put(s) ==
  /\ token' = s.token
  /\ scope' = s.scope
  /\ locals' = s.locals
  /\ globals' = s.globals
  /\ heap' = s.heap
  /\ cnt' = s.cnt

\* error_tok: the process exits with the state reached so far.
Halt(s) ==
  /\ Put(s)
  /\ pc' = "error"
  /\ err' = s.err
  /\ UNCHANGED <<tokens, isfunc, frames, fns, prog>>

Top == frames[Len(frames)]

\* cur->next = node; cur = cur->next; in the innermost open statement list
Link(fs, node) == [fs EXCEPT ![Len(fs)].body = Append(@, node)]

Lookahead ==
  /\ pc = "program"
  /\ ~at_eof(St)
  /\ \E r \in {Call("is_function", St, Nil)} :
        IF Failed(r) THEN Halt(r.s)
        ELSE /\ Put(r.s)
             /\ isfunc' = r.v
             /\ pc' = "item"
             /\ UNCHANGED <<tokens, frames, fns, prog, err>>

ProgramEnd ==
  /\ pc = "program"
  /\ at_eof(St)
  /\ prog' = [globals |-> globals, fns |-> fns]
  /\ pc' = "done"
  /\ UNCHANGED <<tokens, token, scope, locals, globals, heap, cnt, isfunc, frames, fns, err>>

GlobalVar ==
  /\ pc = "item"
  /\ ~isfunc
  /\ \E r \in {Call("global_var", St, Nil)} :
        IF Failed(r) THEN Halt(r.s)
        ELSE /\ Put(r.s)
             /\ pc' = "program"
             /\ UNCHANGED <<tokens, isfunc, frames, fns, prog, err>>

FunctionBegin ==
  /\ pc = "item"
  /\ isfunc
  /\ \E r \in {Call("function_head", St, Nil)} :
        IF Failed(r) THEN Halt(r.s)
        ELSE /\ Put(r.s)
             /\ frames' = <<r.v>>
             /\ pc' = "body"
             /\ UNCHANGED <<tokens, isfunc, fns, prog, err>>

BodyStmt ==
  /\ pc = "body"
  /\ ~peek(St, "}")
  /\ ~peek(St, "{")
  /\ \E r \in {Call("stmt", St, Nil)} :
        IF Failed(r) THEN Halt(r.s)
        ELSE /\ Put(r.s)
             /\ frames' = Link(frames, r.v)
             /\ UNCHANGED <<tokens, pc, isfunc, fns, prog, err>>

EnterBlock ==
  /\ pc = "body"
  /\ peek(St, "{")
  /\ Put(consume(St, "{"))
  /\ frames' = Append(frames, [kind |-> "block", sc |-> scope, body |-> <<>>,
                               name |-> "", params |-> <<>>])
  /\ UNCHANGED <<tokens, pc, isfunc, fns, prog, err>>

LeaveBlock ==
  /\ pc = "body"
  /\ peek(St, "}")
  /\ Top.kind = "block"
  /\ \E s \in {leave_block(consume(St, "}"), Top.sc)},
        node \in {add_type(heap, new_body("ND_BLOCK", Top.body))} :
        IF node.err # "" THEN Halt([s EXCEPT !.err = node.err])
        ELSE /\ Put(s)
             /\ frames' = Link(SubSeq(frames, 1, Len(frames) - 1), node.n)
             /\ UNCHANGED <<tokens, pc, isfunc, fns, prog, err>>

FunctionEnd ==
  /\ pc = "body"
  /\ peek(St, "}")
  /\ Top.kind = "fn"
  /\ Put(leave_block(consume(St, "}"), Top.sc))
  /\ fns' = Append(fns, [name |-> Top.name, params |-> Top.params,
                         node |-> Top.body, locals |-> locals])
  /\ frames' = <<>>
  /\ pc' = "program"
  /\ UNCHANGED <<tokens, isfunc, prog, err>>

Next ==
  \/ Lookahead
  \/ ProgramEnd
  \/ GlobalVar
  \/ FunctionBegin
  \/ BodyStmt
  \/ EnterBlock
  \/ LeaveBlock
  \/ FunctionEnd

(***************************************************************************)
(* Inputs: token streams, each closed by the end-of-file token.            *)
(***************************************************************************)
(* A program text is written as a sequence of words; Lex gives each word   *)
(* the token the tokenizer makes of it.                                    *)
Reserved == {"return", "if", "else", "while", "for", "int", "char", "sizeof", "struct",
             "{", "}", "(", ")", "[", "]", ";", ",", ".", "=", "==", "!=", "<", "<=",
             ">", ">=", "+", "-", "*", "/", "&"}
Numerals == <<"0", "1", "2", "3", "4", "5", "6", "7", "8", "9">>
NumWords == {Numerals[i] : i \in 1..Len(Numerals)}
NumVal(w) == (CHOOSE i \in 1..Len(Numerals) : Numerals[i] = w) - 1
\* A string literal "ab": its bytes and its length with the terminator.
StrWords == {"\"ab\""}

Word(w) ==
  IF w \in Reserved THEN R(w)
  ELSE IF w \in NumWords THEN N(NumVal(w))
  ELSE IF w \in StrWords THEN Str("ab", 3)
  ELSE I(w)

Lex(ws) == [i \in 1..Len(ws) |-> Word(ws[i])] \o <<EOF>>

RECURSIVE Concat(_)
Concat(ss) == IF ss = <<>> THEN <<>> ELSE Head(ss) \o Concat(Tail(ss))

RECURSIVE SeqsOfLen(_, _)
SeqsOfLen(S, n) ==
  IF n = 0 THEN {<<>>} ELSE {<<x>> \o t : x \in S, t \in SeqsOfLen(S, n - 1)}

SeqsUpTo(S, n) == UNION {SeqsOfLen(S, k) : k \in 0..n}

\* Bounds of the inputs.
MaxBody == 3      \* statement-list fragments in a function body
MaxTerms == 2     \* operands of a chain of + and -
MaxDims == 2      \* array suffixes of a declaration
MaxMembers == 2   \* members of an aggregate declaration
MaxItems == 2     \* top-level items of a program
MaxStmtExpr == 3  \* statements of a statement expression

\* Scoping: an outer binding of x (a global, or a parameter after an earlier
\* function that declared w and z), then a body of declarations and uses of x,
\* blocks, a statement expression that declares x, an unbraced if body that
\* declares w, uses of w, a block in a loop body, and a block in a block
\* that both declare x.
ScopePreludes == {
  <<"int", "x", ";", "int", "f", "(", ")", "{">>,
  <<"int", "g", "(", "int", "w", ")", "{", "int", "z", ";", "w", ";", "}",
    "int", "f", "(", "char", "x", ")", "{">> }
ScopeFragments == {
  <<"int", "*", "x", ";", "x", ";">>,
  <<"x", ";">>,
  <<"{">>,
  <<"}">>,
  <<"(", "{", "char", "x", ";", "x", ";", "}", ")", ";">>,
  <<"if", "(", "1", ")", "char", "w", ";">>,
  <<"w", ";">>,
  <<"while", "(", "0", ")", "{", "int", "z", ";", "z", ";", "}">>,
  <<"{", "char", "x", ";", "{", "int", "x", ";", "x", ";", "}", "x", ";", "}">> }
ScopePrograms ==
  {p \o Concat(b) \o <<"}">> : p \in ScopePreludes, b \in SeqsUpTo(ScopeFragments, MaxBody)}

\* Arithmetic: operands of every type class joined by + and -.
ArithPrelude ==
  <<"int", "main", "(", "int", "i", ",", "char", "c", ",", "int", "*", "p", ",",
    "int", "a", "[", "2", "]", ",", "struct", "{", "int", "m", ";", "}", "s", ")", "{">>
ArithOperands == {<<"i">>, <<"c">>, <<"p">>, <<"a">>, <<"s">>, <<"1">>,
                  <<"-", "p">>, <<"&", "i">>}
ArithOps == {<<"+">>, <<"-">>}
RECURSIVE ArithChains(_)
ArithChains(n) ==
  IF n = 1 THEN ArithOperands
  ELSE {c \o o \o x : c \in ArithChains(n - 1), o \in ArithOps, x \in ArithOperands}
ArithPrograms ==
  {ArithPrelude \o e \o <<";", "}">> : e \in UNION {ArithChains(n) : n \in 1..MaxTerms}}

\* Declarations: a base type, a name and a chain of array suffixes, as a
\* global, a local, a parameter and a member; aggregates of every member list.
DeclBases == {<<"int">>, <<"char">>, <<"int", "*">>, <<"char", "*", "*">>}
DeclDims == {<<"[", "2", "]">>, <<"[", "3", "]">>}
DeclSuffixes == {Concat(d) : d \in SeqsUpTo(DeclDims, MaxDims)}
MemberDecls == {
  <<"int", "a", ";">>,
  <<"char", "b", ";">>,
  <<"char", "a", ";">>,
  <<"int", "*", "p", ";">>,
  <<"char", "c", "[", "3", "]", "[", "2", "]", ";">>,
  <<"struct", "{", "char", "c", ";", "int", "d", ";", "}", "n", ";">> }
StructBases ==
  {<<"struct", "{">> \o Concat(m) \o <<"}">> : m \in SeqsUpTo(MemberDecls, MaxMembers)}
DeclSites(d) == {
  d \o <<";">>,
  <<"int", "f", "(", ")", "{">> \o d \o <<";", "}">>,
  <<"int", "f", "(">> \o d \o <<")", "{", "}">>,
  <<"struct", "{">> \o d \o <<";", "}", "g", ";">> }
DeclPrograms ==
  UNION {DeclSites(b \o <<"v">> \o s) : b \in DeclBases, s \in DeclSuffixes}
  \cup UNION {{b \o <<"v">> \o s \o <<";">>,
               <<"int", "f", "(", ")", "{">> \o b \o <<"v">> \o s \o <<";", "}">>}
              : b \in StructBases, s \in {<<>>, <<"[", "2", "]">>}}

\* Top level: sequences of global variables and functions, and items that
\* are neither.
TopItems == {
  <<"int", "x", ";">>,
  <<"int", "f", "(", ")", "{", "return", "0", ";", "}">>,
  <<"char", "*", "s", "[", "2", "]", ";">>,
  <<"struct", "{", "int", "a", ";", "}", "*", "g", "(", "int", "a", ")", "{",
    "return", "a", ";", "}">>,
  <<"struct", "{", "int", "a", ";", "char", "b", ";", "}", "t", ";">>,
  <<"int", ";">>,
  <<"x", ";">>,
  <<"int", "h", "(", "int", ")", "{", "}">> }
TopPrograms == {Concat(s) : s \in SeqsUpTo(TopItems, MaxItems)}

\* sizeof of expressions and of parenthesized type names.
SizeofPrelude ==
  <<"int", "main", "(", "int", "i", ",", "char", "c", ",", "int", "*", "p", ",",
    "int", "a", "[", "2", "]", "[", "3", "]", ",",
    "struct", "{", "int", "m", ";", "char", "k", ";", "}", "s", ")", "{">>
SizeofOperands == {
  <<"i">>, <<"c">>, <<"p">>, <<"a">>, <<"s">>, <<"1">>, <<"\"ab\"">>,
  <<"(", "i", ")">>, <<"(", "a", ")">>, <<"*", "p">>, <<"&", "c">>, <<"*", "a">>,
  <<"a", "[", "1", "]">>, <<"s", ".", "k">>, <<"sizeof", "c">>, <<"*", "i">>,
  <<"(", "{", "c", ";", "}", ")">>, <<"f", "(", ")">>,
  <<"(", "int", ")">>, <<"(", "char", ")">>, <<"(", "int", "*", ")">>,
  <<"(", "struct", "{", "int", "a", ";", "char", "b", ";", "}", ")">> }
SizeofPrograms ==
  {SizeofPrelude \o <<"return", "sizeof">> \o o \o <<";", "}">> : o \in SizeofOperands}
  \cup {SizeofPrelude \o <<"sizeof">> \o o \o <<"+", "1", ";", "}">> : o \in SizeofOperands}

\* Statement expressions with every statement form in every position.
StmtExprStmts == {
  <<"1", ";">>,
  <<"x", ";">>,
  <<"int", "y", "=", "3", ";">>,
  <<"int", "y", ";">>,
  <<"return", "1", ";">>,
  <<"if", "(", "1", ")", "2", ";">>,
  <<"while", "(", "0", ")", "3", ";">>,
  <<"for", "(", ";", ";", ")", "1", ";">>,
  <<"{", "2", ";", "}">> }
StmtExprPrelude == <<"int", "main", "(", "int", "*", "x", ")", "{">>
StmtExprPrograms ==
  {StmtExprPrelude \o <<"(", "{">> \o Concat(b) \o <<"}", ")", ";", "}">>
     : b \in SeqsUpTo(StmtExprStmts, MaxStmtExpr)}
  \cup {StmtExprPrelude \o <<"(", "{", "1", ";", "2", ";", "3", ";", "}", ")", ";", "}">>}

Programs ==
  {Lex(p) : p \in ScopePrograms \cup ArithPrograms \cup DeclPrograms \cup TopPrograms
                  \cup SizeofPrograms \cup StmtExprPrograms}

\* The state as program() starts on the token stream `input`.
Start(input) ==
  /\ tokens = input
  /\ token = 1
  /\ scope = <<>>
  /\ locals = <<>>
  /\ globals = <<>>
  /\ heap = <<>>
  /\ cnt = 0
  /\ pc = "program"
  /\ isfunc = FALSE
  /\ frames = <<>>
  /\ fns = <<>>
  /\ prog = Nil
  /\ err = ""

Init == \E input \in Programs : Start(input)

Spec == Init /\ [][Next]_vars

(***************************************************************************)
(* Properties                                                              *)
(***************************************************************************)
InBody == pc = "body"
Last(seq) == seq[Len(seq)]
\* The statement just linked into the innermost open statement list.
LastStmt == Last(Top.body)
\* One call of stmt() in a statement list has returned.
StmtStep == pc = "body" /\ pc' = "body" /\ Len(frames') = Len(frames)
            /\ Len(Top'.body) = Len(Top.body) + 1
\* A block at statement-list level has been entered / left.
EnterStep == pc = "body" /\ Len(frames') = Len(frames) + 1
LeaveStep == pc = "body" /\ pc' = "body" /\ Len(frames') = Len(frames) - 1

IdentNames == {tokens[i].str : i \in {j \in 1..Len(tokens) : tokens[j].kind = "TK_IDENT"}}
Chain(sc, h) == [token |-> token, scope |-> sc, locals |-> locals, globals |-> globals,
                 heap |-> h, cnt |-> cnt, err |-> ""]
\* The most recently created variable of that name on the chain sc; 0 if none.
Newest(sc, h, name) ==
  LET ids == {sc[i] : i \in {j \in 1..Len(sc) : h[sc[j]].name = name}}
  IN IF ids = {} THEN 0 ELSE CHOOSE v \in ids : \A u \in ids : u <= v
SameVar(a, b) == a.name = b.name /\ a.ty = b.ty /\ a.is_local = b.is_local

\* C1: a name declared again inside a block shadows the outer binding: resolving
\* it gives the most recent declaration on the scope chain, and once the block
\* is closed the chain is the one saved on entry, so the name resolves to the
\* outer variable again, whose name, type and storage class never change.
C1_Resolve ==
  \A n \in IdentNames : find_var(St, n) = Newest(scope, heap, n)
C1_Step ==
  /\ C1_Resolve
  /\ EnterStep => Top'.sc = scope /\ scope' = scope
  /\ \A i \in 1..Len(frames) : i <= Len(frames') => frames'[i].sc = frames[i].sc
  /\ LeaveStep =>
       /\ scope' = Top.sc
       /\ \A n \in IdentNames :
            find_var(Chain(scope', heap'), n) = find_var(Chain(Top.sc, heap), n)
  /\ \A id \in 1..Len(heap) : id <= Len(heap') /\ SameVar(heap'[id], heap[id])
  /\ (InBody /\ peek(St, "{")) =>
       \A r \in {stmt(St)} : ~Failed(r) =>
         /\ r.s.scope = scope
         /\ \A n \in IdentNames : find_var(r.s, n) = find_var(St, n)
C1_ShadowRoundTrip == [][C1_Step]_vars

\* A block was closed; inside it x was declared with another type and used,
\* and x resolves to the outer variable again.
C1_Witness ==
  /\ InBody
  /\ Top.body # <<>>
  /\ LastStmt.kind = "ND_BLOCK"
  /\ \E id \in 1..Len(heap) :
       /\ heap[id].name = "x"
       /\ \A i \in 1..Len(scope) : scope[i] # id
       /\ find_var(St, "x") \in 1..(id - 1)
       /\ heap[find_var(St, "x")].ty # heap[id].ty
       /\ \E k \in 1..Len(LastStmt.body) :
            /\ LastStmt.body[k].kind = "ND_EXPR_STMT"
            /\ LastStmt.body[k].lhs.kind = "ND_VAR"
            /\ LastStmt.body[k].lhs.var = id

\* C2: an identifier not declared in a lexically enclosing scope is undeclared.
\* A statement that is not itself a declaration leaves the scope chain as it
\* found it, whatever it contains (a statement expression, an unbraced body
\* that is a declaration); and w, which the inputs declare only in an earlier
\* function and in an unbraced if body, is never resolved in function f.
C2_UseOfW(node) ==
  node.kind = "ND_EXPR_STMT" /\ node.lhs.kind = "ND_VAR" /\ heap'[node.lhs.var].name = "w"
C2_Step ==
  /\ (StmtStep /\ ~is_typename(St)) => scope' = scope
  /\ (StmtStep /\ frames'[1].name = "f") => ~C2_UseOfW(LastStmt')
C2_LexicalScoping == [][C2_Step]_vars

\* Every node of the tree under node, node included.
RECURSIVE SubNodes(_), SubNodesSeq(_)
SubNodes(node) ==
  IF node.kind = "NIL" THEN {}
  ELSE {node} \cup
       (IF node.kind \in BinaryKinds THEN SubNodes(node.lhs) \cup SubNodes(node.rhs)
        ELSE IF node.kind \in UnaryKinds THEN SubNodes(node.lhs)
        ELSE IF node.kind \in {"ND_BLOCK", "ND_STMT_EXPR"} THEN SubNodesSeq(node.body)
        ELSE IF node.kind = "ND_FUNCALL" THEN SubNodesSeq(node.args)
        ELSE IF node.kind \in {"ND_IF", "ND_WHILE", "ND_FOR"}
          THEN SubNodes(node.init) \cup SubNodes(node.cond) \cup SubNodes(node.inc)
               \cup SubNodes(node.then) \cup SubNodes(node.els)
        ELSE {})
SubNodesSeq(seq) ==
  IF seq = <<>> THEN {} ELSE SubNodes(Head(seq)) \cup SubNodesSeq(Tail(seq))

\* The nodes of every statement parsed so far.
RECURSIVE FrameNodes(_)
FrameNodes(fs) ==
  IF fs = <<>> THEN {} ELSE SubNodesSeq(Head(fs).body) \cup FrameNodes(Tail(fs))
RECURSIVE FnNodes(_)
FnNodes(fl) ==
  IF fl = <<>> THEN {} ELSE SubNodesSeq(Head(fl).node) \cup FnNodes(Tail(fl))
ParsedNodes == FrameNodes(frames) \cup FnNodes(fns)

IntegerTy(ty) == ty.kind \in {"TY_INT", "TY_CHAR"}
BaseTy(ty) == ty.kind \in {"TY_PTR", "TY_ARRAY"}

\* C4: there is no implicit conversion: a plain addition or subtraction node has
\* integer operands only, so a pointer, array or aggregate never takes the
\* place of an integer operand (unary minus of a non-integer included).
C4_NoCoercion ==
  \A n \in ParsedNodes :
    n.kind \in {"ND_ADD", "ND_SUB"} => IntegerTy(n.lhs.ty) /\ IntegerTy(n.rhs.ty)

\* Every type reachable from ty through element, pointee and member types.
RECURSIVE TypesIn(_), TypesInMembers(_)
TypesIn(ty) ==
  {ty} \cup (IF ty.kind \in {"TY_PTR", "TY_ARRAY"} THEN TypesIn(ty.base)
             ELSE IF ty.kind = "TY_STRUCT" THEN TypesInMembers(ty.members)
             ELSE {})
TypesInMembers(ms) ==
  IF ms = <<>> THEN {} ELSE TypesIn(Head(ms).ty) \cup TypesInMembers(Tail(ms))
DeclaredTypes == UNION {TypesIn(heap[id].ty) : id \in 1..Len(heap)}
Aggregates == {ty \in DeclaredTypes : ty.kind = "TY_STRUCT"}

\* C8: the member names of an aggregate are pairwise distinct (a second member
\* of the same name is a declaration error, so no such type is ever built).
C8_DistinctMembers ==
  \A ty \in Aggregates :
    \A i, j \in 1..Len(ty.members) :
      ty.members[i].name = ty.members[j].name => i = j

(***************************************************************************)
(* Reading a declaration off the token sequence, independently of the      *)
(* parser: base type keyword or struct body, stars, name, array suffixes.  *)
(***************************************************************************)
T(i) == IF i \in 1..Len(tokens) THEN tokens[i] ELSE EOF
Is(i, str) == T(i).kind = "TK_RESERVED" /\ T(i).str = str

\* The "}" that closes the brace opened before position i (depth d open).
RECURSIVE MatchBrace(_, _)
MatchBrace(i, d) ==
  IF i > Len(tokens) THEN i
  ELSE IF Is(i, "{") THEN MatchBrace(i + 1, d + 1)
  ELSE IF Is(i, "}") THEN (IF d = 1 THEN i ELSE MatchBrace(i + 1, d - 1))
  ELSE MatchBrace(i + 1, d)
RECURSIVE SkipStars(_)
SkipStars(i) == IF Is(i, "*") THEN SkipStars(i + 1) ELSE i
CoreEnd(p) == IF Is(p, "struct") THEN MatchBrace(p + 2, 1) + 1 ELSE p + 1
Stars(p) == SkipStars(CoreEnd(p)) - CoreEnd(p)
NamePos(p) == SkipStars(CoreEnd(p))
RECURSIVE DimsAt(_)
DimsAt(i) ==
  IF Is(i, "[") /\ T(i + 1).kind = "TK_NUM" /\ Is(i + 2, "]")
    THEN <<T(i + 1).val>> \o DimsAt(i + 3)
    ELSE <<>>
DeclDimsAt(p) == DimsAt(NamePos(p) + 1)
DeclEnd(p) == NamePos(p) + 1 + 3 * Len(DeclDimsAt(p))

\* The array lengths of a type from the outermost inwards, and what is left
\* after n array (or pointer) layers are taken off.
RECURSIVE ArrayDims(_)
ArrayDims(ty) ==
  IF ty.kind = "TY_ARRAY" THEN <<ty.array_len>> \o ArrayDims(ty.base) ELSE <<>>
RECURSIVE ElementOf(_)
ElementOf(ty) == IF ty.kind = "TY_ARRAY" THEN ElementOf(ty.base) ELSE ty
RECURSIVE PtrDepth(_)
PtrDepth(ty) == IF ty.kind = "TY_PTR" THEN 1 + PtrDepth(ty.base) ELSE 0
RECURSIVE Pointee(_)
Pointee(ty) == IF ty.kind = "TY_PTR" THEN Pointee(ty.base) ELSE ty

\* ty is the type that the declaration text at position p declares.
RECURSIVE DeclOk(_, _), BaseOk(_, _), MembersOk(_, _)
DeclOk(p, ty) ==
  /\ ArrayDims(ty) = DeclDimsAt(p)
  /\ BaseOk(p, ElementOf(ty))
BaseOk(p, bt) ==
  /\ PtrDepth(bt) = Stars(p)
  /\ IF Is(p, "int") THEN Pointee(bt).kind = "TY_INT"
     ELSE IF Is(p, "char") THEN Pointee(bt).kind = "TY_CHAR"
     ELSE /\ Is(p, "struct")
          /\ Pointee(bt).kind = "TY_STRUCT"
          /\ MembersOk(p + 2, Pointee(bt).members)
MembersOk(q, ms) ==
  IF Is(q, "}") THEN ms = <<>>
  ELSE /\ ms # <<>>
       /\ Head(ms).name = T(NamePos(q)).str
       /\ DeclOk(q, Head(ms).ty)
       /\ MembersOk(DeclEnd(q) + 1, Tail(ms))
RECURSIVE ParamsOk(_, _, _)
ParamsOk(q, ps, h) ==
  IF Is(q, ")") THEN ps = <<>>
  ELSE /\ ps # <<>>
       /\ h[Head(ps)].name = T(NamePos(q)).str
       /\ h[Head(ps)].is_local
       /\ DeclOk(q, h[Head(ps)].ty)
       /\ ParamsOk(IF Is(DeclEnd(q), ",") THEN DeclEnd(q) + 1 ELSE DeclEnd(q), Tail(ps), h)

GlobalVarStep == pc = "item" /\ ~isfunc /\ pc' = "program"
FunctionBeginStep == pc = "item" /\ isfunc /\ pc' = "body"
LocalDeclStep == StmtStep /\ is_typename(St)
NewVar == heap'[Len(heap) + 1]

\* C9: the array suffixes of a declarator nest in source order: the first
\* suffix is the outermost dimension, and under the last one is the base type.
\* This holds wherever a declarator is read: global variables, local variables,
\* function parameters, and (through the base type) aggregate members.
C9_Step ==
  /\ GlobalVarStep =>
       /\ Len(heap') = Len(heap) + 1
       /\ NewVar.name = T(NamePos(token)).str
       /\ ~NewVar.is_local
       /\ DeclOk(token, NewVar.ty)
  /\ LocalDeclStep =>
       /\ Len(heap') > Len(heap)
       /\ NewVar.name = T(NamePos(token)).str
       /\ NewVar.is_local
       /\ DeclOk(token, NewVar.ty)
  /\ FunctionBeginStep =>
       ParamsOk(NamePos(token) + 2, Top'.params, heap')
C9_SuffixOrder == [][C9_Step]_vars

\* A local T *v[2][3] was declared: an array of 2 arrays of 3 pointers.
C9_Witness ==
  \E id \in 1..Len(heap) :
    /\ heap[id].is_local
    /\ ArrayDims(heap[id].ty) = <<2, 3>>
    /\ heap[id].ty.base.array_len = 3
    /\ ElementOf(heap[id].ty).kind = "TY_PTR"

\* The offsets of an aggregate are the running total of the member sizes, from
\* 0; its size is the total; an aggregate without members has size 0.
Layout(ty) ==
  /\ \A i \in 1..Len(ty.members) :
       ty.members[i].offset =
         IF i = 1 THEN 0 ELSE ty.members[i - 1].offset + ty.members[i - 1].ty.size
  /\ ty.size = IF ty.members = <<>> THEN 0
               ELSE Last(ty.members).offset + Last(ty.members).ty.size
\* The size of a scalar, pointer or array type, from the sizes under it.
Sized(ty) ==
  CASE ty.kind = "TY_CHAR" -> ty.size = CharSize
    [] ty.kind = "TY_INT" -> ty.size = IntSize
    [] ty.kind = "TY_PTR" -> ty.size = PtrSize
    [] ty.kind = "TY_ARRAY" -> ty.size = ty.array_len * ty.base.size
    [] OTHER -> TRUE
RECURSIVE NamesAt(_)
NamesAt(q) ==
  IF Is(q, "}") \/ q > Len(tokens) THEN <<>>
  ELSE <<T(NamePos(q)).str>> \o NamesAt(DeclEnd(q) + 1)
MemberNames(ty) == [i \in 1..Len(ty.members) |-> ty.members[i].name]

\* C10: members are laid out in declaration order without padding: each offset
\* is the sum of the sizes of the members before it, the size of the aggregate
\* is the sum of all member sizes (nested aggregates and arrays with their
\* own sizes), and the empty aggregate has size 0.
C10_Layout ==
  /\ \A ty \in DeclaredTypes : Sized(ty)
  /\ \A ty \in Aggregates : Layout(ty)
  /\ token = 1 =>
       \A p \in 1..Len(tokens) : Is(p, "struct") =>
         \A r \in {struct_decl([St EXCEPT !.token = p])} : ~Failed(r) =>
           /\ Layout(r.v)
           /\ MemberNames(r.v) = NamesAt(p + 2)

\* A variable of an aggregate type whose second member follows an array member
\* and is itself an aggregate.
C10_Witness ==
  \E id \in 1..Len(heap) :
    /\ heap[id].ty.kind = "TY_STRUCT"
    /\ Len(heap[id].ty.members) = 2
    /\ heap[id].ty.members[1].ty.kind = "TY_ARRAY"
    /\ heap[id].ty.members[2].ty.kind = "TY_STRUCT"
    /\ heap[id].ty.members[2].offset = heap[id].ty.members[1].ty.size
    /\ heap[id].ty.members[2].ty.size > 0

LookaheadStep == pc = "program" /\ pc' = "item"
\* After the base type and its stars come an identifier and "(".
FunctionShape(p) == T(NamePos(p)).kind = "TK_IDENT" /\ Is(NamePos(p) + 1, "(")

\* C5: the lookahead at a top-level item answers "function" exactly when a base
\* type (a whole struct declaration and trailing stars included) is followed
\* by an identifier and "(", and leaves the token position, the scope chain,
\* the locals and the globals as they were; a global variable item then adds
\* one global and no function, a function item one function, so "int x;" gives
\* one global and "int f(){return 0;}" one function.
C5_Step ==
  /\ LookaheadStep =>
       /\ isfunc' = FunctionShape(token)
       /\ token' = token
       /\ scope' = scope /\ locals' = locals /\ globals' = globals /\ heap' = heap
       /\ fns' = fns /\ frames' = frames
  /\ GlobalVarStep =>
       /\ Len(globals') = Len(globals) + 1
       /\ fns' = fns
       /\ token' > token
  /\ (pc = "item" /\ isfunc /\ pc' # "error") => globals' = globals /\ frames' # <<>>
  /\ (pc = "body" /\ pc' = "program") => Len(fns') = Len(fns) + 1 /\ globals' = globals
  /\ (pc' = "done" /\ tokens = Lex(<<"int", "x", ";">>)) =>
       Len(prog'.globals) = 1 /\ prog'.fns = <<>>
  /\ (pc' = "done" /\ tokens = Lex(<<"int", "f", "(", ")", "{", "return", "0", ";", "}">>)) =>
       prog'.globals = <<>> /\ Len(prog'.fns) = 1
C5_Lookahead == [][C5_Step]_vars

\* The lookahead ran over a struct declaration of a second item, answered
\* "function", and the token position is back at "struct".
C5_Witness ==
  /\ pc = "item"
  /\ isfunc
  /\ token > 1
  /\ Is(token, "struct")
  /\ Len(globals) + Len(fns) = 1

(***************************************************************************)
(* A chain of + and - over identifiers and numbers, read off the tokens.   *)
(***************************************************************************)
Operand(i) == T(i).kind \in {"TK_IDENT", "TK_NUM"}
Declared(i) == T(i).kind = "TK_NUM" \/ Newest(scope, heap, T(i).str) # 0
OperandTy(i) ==
  IF T(i).kind = "TK_NUM" THEN int_type ELSE heap[Newest(scope, heap, T(i).str)].ty
Class(ty) ==
  IF IntegerTy(ty) THEN "integer" ELSE IF BaseTy(ty) THEN "base" ELSE "aggregate"
Leaf(i) ==
  IF T(i).kind = "TK_NUM" THEN <<"ND_NUM", T(i).val>>
  ELSE <<"ND_VAR", Newest(scope, heap, T(i).str)>>
RECURSIVE IsChain(_)
IsChain(i) ==
  /\ Operand(i) /\ Declared(i)
  /\ \/ Is(i + 1, ";")
     \/ (Is(i + 1, "+") \/ Is(i + 1, "-")) /\ IsChain(i + 2)
Bad == [sh |-> <<>>, cls |-> "bad"]
\* The table of binary + and -.
Table(op, a, b) ==
  CASE op = "+" /\ a.cls = "integer" /\ b.cls = "integer" ->
         [sh |-> <<"ND_ADD", a.sh, b.sh>>, cls |-> "integer"]
    [] op = "+" /\ a.cls = "base" /\ b.cls = "integer" ->
         [sh |-> <<"ND_PTR_ADD", a.sh, b.sh>>, cls |-> "base"]
    [] op = "+" /\ a.cls = "integer" /\ b.cls = "base" ->
         [sh |-> <<"ND_PTR_ADD", b.sh, a.sh>>, cls |-> "base"]
    [] op = "-" /\ a.cls = "integer" /\ b.cls = "integer" ->
         [sh |-> <<"ND_SUB", a.sh, b.sh>>, cls |-> "integer"]
    [] op = "-" /\ a.cls = "base" /\ b.cls = "integer" ->
         [sh |-> <<"ND_PTR_SUB", a.sh, b.sh>>, cls |-> "base"]
    [] op = "-" /\ a.cls = "base" /\ b.cls = "base" ->
         [sh |-> <<"ND_PTR_DIFF", a.sh, b.sh>>, cls |-> "integer"]
    [] OTHER -> Bad
\* Left to right from the operator at position i, acc being the tree so far.
RECURSIVE Fold(_, _)
Fold(i, acc) ==
  IF Is(i, ";") \/ acc = Bad THEN acc
  ELSE Fold(i + 2, Table(T(i).str, acc, [sh |-> Leaf(i + 1), cls |-> Class(OperandTy(i + 1))]))
Expected(i) == Fold(i + 1, [sh |-> Leaf(i), cls |-> Class(OperandTy(i))])
RECURSIVE Shape(_)
Shape(node) ==
  IF node.kind = "ND_NUM" THEN <<"ND_NUM", node.val>>
  ELSE IF node.kind = "ND_VAR" THEN <<"ND_VAR", node.var>>
  ELSE IF node.kind \in BinaryKinds THEN <<node.kind, Shape(node.lhs), Shape(node.rhs)>>
  ELSE <<node.kind>>

\* C3: binary + and - build the node of the table for every pair of operand
\* types: plain add and sub for integers, the pointer forms with the operand
\* that has a base on the left (swapped for integer + base), pointer difference
\* for base - base, and the invalid-operands error with no node otherwise.
C3_Step ==
  (InBody /\ IsChain(token) /\ ~Is(token + 1, ";")) =>
    IF Expected(token) = Bad
      THEN pc' = "error" /\ err' = "invalid operands" /\ frames' = frames
      ELSE /\ StmtStep
           /\ LastStmt'.kind = "ND_EXPR_STMT"
           /\ Shape(LastStmt'.lhs) = Expected(token).sh
C3_ArithTable == [][C3_Step]_vars

\* integer + base was parsed: a pointer add whose left child is the variable
\* written second and whose right child is the one written first.
C3_Witness ==
  /\ InBody
  /\ Top.body # <<>>
  /\ Is(token - 1, ";") /\ Is(token - 3, "+") /\ Is(token - 5, "{")
  /\ T(token - 4).kind = "TK_IDENT" /\ T(token - 2).kind = "TK_IDENT"
  /\ IntegerTy(OperandTy(token - 4)) /\ BaseTy(OperandTy(token - 2))
  /\ LastStmt.kind = "ND_EXPR_STMT"
  /\ Shape(LastStmt.lhs) = <<"ND_PTR_ADD", Leaf(token - 2), Leaf(token - 4)>>

(***************************************************************************)
(* The operand of sizeof, read off the tokens: its size and where it ends. *)
(***************************************************************************)
VarAt(i) == heap[Newest(scope, heap, T(i).str)]
IsVar(i) == T(i).kind = "TK_IDENT" /\ Newest(scope, heap, T(i).str) # 0
TypeNameAt(i) ==
  /\ Is(i, "(")
  /\ Is(i + 1, "int") \/ Is(i + 1, "char") \/ Is(i + 1, "struct")
  /\ Is(NamePos(i + 1), ")")
\* The size of the type named at position i: a pointer if stars follow, else
\* the scalar size or the sum of the sizes of the declared members.
RECURSIVE Product(_)
Product(seq) == IF seq = <<>> THEN 1 ELSE Head(seq) * Product(Tail(seq))
RECURSIVE DeclSize(_), MembersSize(_)
DeclSize(p) ==
  LET el == IF Stars(p) > 0 THEN PtrSize
            ELSE IF Is(p, "int") THEN IntSize
            ELSE IF Is(p, "char") THEN CharSize
            ELSE MembersSize(p + 2)
  IN Product(DeclDimsAt(p)) * el
MembersSize(q) ==
  IF Is(q, "}") \/ q > Len(tokens) THEN 0
  ELSE DeclSize(q) + MembersSize(DeclEnd(q) + 1)
TypeNameSize(i) ==
  IF Stars(i + 1) > 0 THEN PtrSize
  ELSE IF Is(i + 1, "int") THEN IntSize
  ELSE IF Is(i + 1, "char") THEN CharSize
  ELSE MembersSize(i + 3)
None == [sz |-> 0 - 1, end |-> 0]
MemberSize(ty, name) ==
  LET hit == {k \in 1..Len(ty.members) : ty.members[k].name = name}
  IN IF ty.kind # "TY_STRUCT" \/ hit = {} THEN 0 - 1
     ELSE ty.members[CHOOSE k \in hit : TRUE].ty.size
SizeofOperand(i) ==
  CASE TypeNameAt(i) -> [sz |-> TypeNameSize(i), end |-> NamePos(i + 1) + 1]
    [] T(i).kind = "TK_NUM" -> [sz |-> IntSize, end |-> i + 1]
    [] T(i).kind = "TK_STR" -> [sz |-> T(i).val * CharSize, end |-> i + 1]
    [] IsVar(i) /\ Is(i + 1, "[") /\ T(i + 2).kind = "TK_NUM" /\ Is(i + 3, "]")
         /\ BaseTy(VarAt(i).ty) -> [sz |-> VarAt(i).ty.base.size, end |-> i + 4]
    [] IsVar(i) /\ Is(i + 1, ".") /\ T(i + 2).kind = "TK_IDENT" ->
         [sz |-> MemberSize(VarAt(i).ty, T(i + 2).str), end |-> i + 3]
    [] T(i).kind = "TK_IDENT" /\ Is(i + 1, "(") /\ Is(i + 2, ")") ->
         [sz |-> IntSize, end |-> i + 3]
    [] IsVar(i) /\ ~Is(i + 1, "[") /\ ~Is(i + 1, ".") /\ ~Is(i + 1, "(") ->
         [sz |-> VarAt(i).ty.size, end |-> i + 1]
    [] Is(i, "(") /\ IsVar(i + 1) /\ Is(i + 2, ")") ->
         [sz |-> VarAt(i + 1).ty.size, end |-> i + 3]
    [] Is(i, "(") /\ Is(i + 1, "{") /\ IsVar(i + 2) /\ Is(i + 3, ";")
         /\ Is(i + 4, "}") /\ Is(i + 5, ")") ->
         [sz |-> VarAt(i + 2).ty.size, end |-> i + 6]
    [] Is(i, "*") /\ IsVar(i + 1) /\ BaseTy(VarAt(i + 1).ty) ->
         [sz |-> VarAt(i + 1).ty.base.size, end |-> i + 2]
    [] Is(i, "&") /\ IsVar(i + 1) -> [sz |-> PtrSize, end |-> i + 2]
    [] Is(i, "sizeof") /\ IsVar(i + 1) -> [sz |-> IntSize, end |-> i + 2]
    [] OTHER -> None
IsLiteral(node, val) ==
  /\ node.kind = "ND_NUM"
  /\ node.val = val
  /\ DOMAIN node = {"kind", "ty", "val"}

\* C6: sizeof of a parenthesized type name and of a unary expression parses to
\* one numeric literal, the size of the named type or of the operand's type,
\* and nothing of the operand is in the tree: "return sizeof X;" gives a return
\* of that literal, "sizeof X + 1;" the sum of that literal and 1.
C6_Step ==
  /\ (InBody /\ Is(token, "return") /\ Is(token + 1, "sizeof")
        /\ SizeofOperand(token + 2).sz >= 0 /\ Is(SizeofOperand(token + 2).end, ";")) =>
       /\ StmtStep
       /\ token' = SizeofOperand(token + 2).end + 1
       /\ LastStmt'.kind = "ND_RETURN"
       /\ IsLiteral(LastStmt'.lhs, SizeofOperand(token + 2).sz)
  /\ (InBody /\ Is(token, "sizeof")
        /\ SizeofOperand(token + 1).sz >= 0 /\ Is(SizeofOperand(token + 1).end, "+")) =>
       /\ StmtStep
       /\ LastStmt'.kind = "ND_EXPR_STMT"
       /\ LastStmt'.lhs.kind = "ND_ADD"
       /\ IsLiteral(LastStmt'.lhs.lhs, SizeofOperand(token + 1).sz)
C6_SizeofFolded == [][C6_Step]_vars

\* sizeof of the expressions alone: what C6 says without the type names.
C6_ExprOnly ==
  [][(InBody /\ ~TypeNameAt(token + 1) /\ ~TypeNameAt(token + 2)) => C6_Step]_vars

(***************************************************************************)
(* The statements of a statement expression, parsed one by one.            *)
(***************************************************************************)
RECURSIVE Items(_, _)
Items(s, acc) ==
  IF peek(s, "}") THEN [ok |-> TRUE, items |-> acc, last |-> 0]
  ELSE LET r == stmt(s)
       IN IF Failed(r) THEN [ok |-> FALSE, items |-> acc, last |-> s.token]
          ELSE LET rest == Items(r.s, Append(acc, r.v))
               IN IF rest.last = 0 THEN [rest EXCEPT !.last = s.token] ELSE rest
\* The statement at position p is not an expression statement: a return, if,
\* while, for or block, or a declaration without initializer.
NotExprStmt(p) ==
  \/ Is(p, "return") \/ Is(p, "if") \/ Is(p, "while") \/ Is(p, "for") \/ Is(p, "{")
  \/ (Is(p, "int") \/ Is(p, "char") \/ Is(p, "struct")) /\ Is(DeclEnd(p), ";")
Front(seq) == SubSeq(seq, 1, Len(seq) - 1)

\* C7: the body of ({ s1; ...; sn; }) is s1..sn in source order with the last
\* element replaced by the expression of sn, when sn is an expression
\* statement; when it is a return, if, while, for, block or declaration
\* without initializer, parsing fails and no node is produced.  ({ 1; 2; 3; })
\* ends in the literal 3.
C7_Step ==
  /\ (InBody /\ Is(token, "(") /\ Is(token + 1, "{") /\ ~Is(token + 2, "}")) =>
       \A it \in {Items([St EXCEPT !.token = token + 2], <<>>)} :
         it.ok =>
           IF NotExprStmt(it.last)
             THEN pc' = "error" /\ frames' = frames /\ fns' = fns
             ELSE /\ StmtStep
                  /\ LastStmt'.kind = "ND_EXPR_STMT"
                  /\ LastStmt'.lhs.kind = "ND_STMT_EXPR"
                  /\ LastStmt'.lhs.body =
                       Append(Front(it.items), Last(it.items).lhs)
                  /\ \A k \in 1..(Len(it.items) - 1) : LastStmt'.lhs.body[k] = it.items[k]
                  /\ Last(it.items).kind = "ND_EXPR_STMT"
  /\ (InBody /\ [k \in 1..10 |-> T(token + k - 1)]
         = Front(Lex(<<"(", "{", "1", ";", "2", ";", "3", ";", "}", ")">>))) =>
       /\ StmtStep
       /\ Len(LastStmt'.lhs.body) = 3
       /\ \A k \in 1..2 : /\ LastStmt'.lhs.body[k].kind = "ND_EXPR_STMT"
                          /\ IsLiteral(LastStmt'.lhs.body[k].lhs, k)
       /\ IsLiteral(LastStmt'.lhs.body[3], 3)
C7_StmtExprValue == [][C7_Step]_vars

\* ({ s1; s2; s3; }) was parsed with s1 a declaration with initializer and s2
\* a loop: both are in the body as they are, the third element is a variable.
C7_Witness ==
  /\ InBody
  /\ Top.body # <<>>
  /\ LastStmt.kind = "ND_EXPR_STMT"
  /\ LastStmt.lhs.kind = "ND_STMT_EXPR"
  /\ Len(LastStmt.lhs.body) = 3
  /\ LastStmt.lhs.body[1].kind = "ND_EXPR_STMT"
  /\ LastStmt.lhs.body[1].lhs.kind = "ND_ASSIGN"
  /\ LastStmt.lhs.body[2].kind = "ND_WHILE"
  /\ LastStmt.lhs.body[3].kind = "ND_VAR"

====
